---- MODULE Spec2Model ----
(***************************************************************************)
(* RTSP control plane and RTP pacer of the streaming server.               *)
(*                                                                         *)
(* One connection handler thread per client (RTSPServer.handle_client),    *)
(* one pacer thread per successful spawn in handle_play                    *)
(* (RTSPServer.stream_video), the main thread's stop(), and the wall       *)
(* clock.  A request is handled in one step (the handlers run on the       *)
(* connection's own thread, one request at a time); the pacer is split at  *)
(* the points where it reads the session's fields: the loop test, the      *)
(* frame fetch with packetisation, and the datagram send.                  *)
(*                                                                         *)
(* The clock counts whole seconds; RTP timestamps are kept in seconds of   *)
(* the 90 kHz clock (the tick counts of a present-day clock exceed TLC's  *)
(* 32-bit integers), so "fits in 32 bits" is a comparison with             *)
(* U32MaxSeconds = (2^32 - 1) \div 90000.                                  *)
(***************************************************************************)
EXTENDS Integers, Sequences, FiniteSets, TLC

\* ------------------------------------------------------------- bounds
\* Pacer threads of one session that may be alive together.
MaxThreads == 2
\* Packets one packetizer may create.
MaxPackets == 2
\* Seconds the clock may advance during a run.
MaxTicks == 1
\* Packets created by the packetizer that runs on its own.
MaxCreated == 60

\* ---------------------------------------------------------- constants
OK == 200
FILE_NOT_FOUND == 404
CON_ERR == 500
DefaultRtpPort == 25000
MinFrameSize == 100
SeqModulus == 65536
\* (2^32 - 1) \div 90000: the largest whole second whose 90 kHz tick count
\* struct's 'I' format still packs.
U32MaxSeconds == 47721

\* Python's None, and an object reference, as a sequence of length 0 or 1.
None == <<>>
Some(x) == <<x>>
Val(o) == o[1]

\* Client addresses: the connections the acceptor may see.
AllAddrs == {1, 2}
Addrs == {1}
Tids == 1..MaxThreads

\* The clock at server start: within the first hours of the epoch (a board
\* without a battery-backed clock), or a value past 1970-01-01T13:15, which
\* stands for every present-day clock (twice it exceeds U32MaxSeconds).
ClockStarts == {20000, 1000000000}

\* ------------------------------------------------------- the file system
\* File names as stem and extension; the media directory and the top-level
\* directory the server runs in.
File(stem, ext) == [stem |-> stem, ext |-> ext]
VideosDir == {File("clip", "mjpeg")}
RootDir == {File("movie", "MP4"), File("notes", "txt")}
Targets == {File("clip", "mjpeg"), File("movie", "MP4"),
            File("notes", "txt"), File("ghost", "mp4")}

\* str.lower() on the extensions in use.
Lower(ext) == IF ext = "MP4" THEN "mp4" ELSE ext

\* os.path.join('videos', filename) and the bare root path.
VideosPath(f) == [dir |-> "videos", file |-> f]
RootPath(f) == [dir |-> ".", file |-> f]
PathExists(p) ==
    IF p.dir = "videos" THEN p.file \in VideosDir ELSE p.file \in RootDir

\* url.split('/')[-1]
Url(f) == <<"rtsp:", "", "localhost:8554", f>>
UrlFilename(url) == url[Len(url)]

\* handle_setup's resolution: the media directory, then the top level for
\* .mp4 files only.  None when neither resolves.
ResolveAnyRootFile(filename) ==
    IF PathExists(VideosPath(filename)) THEN Some(VideosPath(filename))
    ELSE IF PathExists(RootPath(filename)) THEN Some(RootPath(filename))
    ELSE None
ResolvePath(filename) ==
    IF PathExists(VideosPath(filename)) THEN Some(VideosPath(filename))
    ELSE IF PathExists(RootPath(filename)) /\ Lower(filename.ext) = "mp4"
         THEN Some(RootPath(filename))
    ELSE None

\* ------------------------------------------------------------ requests
\* The CSeq header: absent, a number, or text int() rejects.
CSeqHeaders == {"absent", "7", "x"}
\* The Transport header: absent, client_port=6000-6001, or client_port=abc.
TransportHeaders == {"absent", "6000", "abc"}
Methods == {"SETUP", "PLAY", "PAUSE", "TEARDOWN", "OPTIONS"}

\* int(text): the number, or None where Python raises ValueError.
ParseInt(text) ==
    CASE text = "7" -> Some(7)
      [] text = "6000" -> Some(6000)
      [] OTHER -> None

\* The requests a client may send: a request line with fewer than three
\* tokens, or a full line with its headers.  Target and Transport matter
\* to SETUP alone: every target comes with a well-formed Transport, and the
\* media directory's clip also with a missing and with a malformed one.  A
\* CSeq that int() rejects ends the handling before the method is looked
\* at, so the SETUP with one stands for all of them.
ShortRequest ==
    [tokens |-> 2, method |-> "SETUP", url |-> Url(File("clip", "mjpeg")),
     cseq |-> "7", transport |-> "absent"]
Requests ==
    {ShortRequest}
    \cup [tokens : {3}, method : {"SETUP"}, url : {Url(f) : f \in Targets},
          cseq : CSeqHeaders \ {"x"}, transport : {"6000"}]
    \cup [tokens : {3}, method : {"SETUP"}, url : {Url(File("clip", "mjpeg"))},
          cseq : CSeqHeaders \ {"x"}, transport : {"absent", "abc"}]
    \cup [tokens : {3}, method : Methods,
          url : {Url(File("clip", "mjpeg"))},
          cseq : CSeqHeaders, transport : {"absent"}]
NoRequest ==
    [tokens |-> 0, method |-> "", url |-> <<>>, cseq |-> "absent",
     transport |-> "absent"]

\* ----------------------------------------------------------- responses
NoHeader == <<>>
\* generate_response: status line and CSeq only.
generate_response_zero(code, cseq) ==
    [code |-> code, cseq |-> 0, session |-> NoHeader, transport |-> NoHeader]
generate_response(code, cseq) ==
    [code |-> code, cseq |-> cseq, session |-> NoHeader, transport |-> NoHeader]
NoResponse == [code |-> 0, cseq |-> 0, session |-> NoHeader, transport |-> NoHeader]

\* ------------------------------------------------------------ sessions
\* ClientSession.__init__
NewSession ==
    [seq_num |-> 0, session_id |-> None, state |-> "INIT",
     video_stream |-> None, rtp_stream |-> None, rtp_socket |-> None,
     client_rtp_port |-> None, server_rtp_port |-> None,
     streaming_thread |-> None]

\* The frame source (VideoStream): the frames of every file are one frame
\* of plausible size and one undersized frame, then end of stream, so the
\* source is its read position and whether it was closed.
FrameSizes == <<150, 40>>
VideoStream(path) == [pos |-> 0, closed |-> FALSE]
\* get_next_frame: the frame's size, or None at end of stream.
NextFrame(vs) == IF vs.pos < Len(FrameSizes) THEN Some(FrameSizes[vs.pos + 1]) ELSE None
AdvanceFrame(vs) == [vs EXCEPT !.pos = vs.pos + 1]
ResetFrames(vs) == [vs EXCEPT !.pos = 0]
CloseFrames(vs) == [vs EXCEPT !.closed = TRUE]

\* RTPVideoStream.__init__ at clock second now.
RTPVideoStream(now) == [ssrc |-> now, seq_num |-> 0, timestamp_base |-> now]

\* RTPPacket as create_packet builds it (payload by its length).
RTPPacket(marker, seq_num, timestamp, ssrc, payload) ==
    [version |-> 2, padding |-> 0, extension |-> 0, cc |-> 0,
     marker |-> marker, pt |-> 26, seq_num |-> seq_num,
     timestamp |-> timestamp, ssrc |-> ssrc, payload |-> payload]
NoPacket == RTPPacket(0, 0, 0, 0, 0)
\* RTPVideoStream.create_packet: the packet and the advanced packetizer.
create_packet_unwrapped(rs, frame, is_last_fragment, now) ==
    [packet |-> RTPPacket(IF is_last_fragment THEN 1 ELSE 0, rs.seq_num,
                          rs.timestamp_base + now, rs.ssrc, frame),
     rs |-> [rs EXCEPT !.seq_num = rs.seq_num + 1]]
create_packet(rs, frame, is_last_fragment, now) ==
    [packet |-> RTPPacket(IF is_last_fragment THEN 1 ELSE 0, rs.seq_num,
                          rs.timestamp_base + now, rs.ssrc, frame),
     rs |-> [rs EXCEPT !.seq_num = (rs.seq_num + 1) % SeqModulus]]
\* RTPPacket.encode succeeds iff struct.pack accepts the 32-bit fields.
EncodeOk(packet) ==
    /\ packet.timestamp >= 0 /\ packet.timestamp <= U32MaxSeconds
    /\ packet.seq_num >= 0 /\ packet.seq_num < SeqModulus

\* ClientSession.cleanup
cleanup_state_only(s) == [s EXCEPT !.state = "INIT"]
cleanup(s) ==
    [s EXCEPT !.state = "INIT",
              !.rtp_socket = IF s.rtp_socket # None THEN Some("closed") ELSE None,
              !.video_stream = IF s.video_stream # None
                               THEN Some(CloseFrames(Val(s.video_stream)))
                               ELSE None]

\* ------------------------------------------------------------ handlers
\* What a handler returns: the session after it, the response, and whether
\* it started a pacer thread.
Outcome(s, resp, spawn) == [raised |-> FALSE, s |-> s, resp |-> resp, spawn |-> spawn]
\* An exception that leaves parse_rtsp_request.
Raised(s) == [raised |-> TRUE, s |-> s, resp |-> NoResponse, spawn |-> FALSE]

\* The 200 response of PLAY, PAUSE and TEARDOWN: CSeq and Session.
SessionResponse(s) ==
    [code |-> OK, cseq |-> s.seq_num, session |-> Some(s.session_id),
     transport |-> NoHeader]

\* handle_setup's scan of the lines for client_port=: the port text.
ClientPortText(request) ==
    IF request.transport = "absent" THEN None ELSE Some(request.transport)

\* The calls of handle_setup that may raise on this request: none when it
\* returns before them, else VideoStream(...) and socket.socket(...).
Faults(request) ==
    IF /\ request.tokens >= 3 /\ request.method = "SETUP"
       /\ ParseInt(request.cseq) # None \/ request.cseq = "absent"
       /\ ResolvePath(UrlFilename(request.url)) # None
       /\ request.transport = "absent" \/ ParseInt(request.transport) # None
    THEN {"none", "source", "socket"}
    ELSE {"none"}

\* handle_setup.  fault names the call that raises in this run of it:
\* "source" (VideoStream(...)), "socket" (socket.socket(...)) or "none".
handle_setup(request, s, now, fault) ==
    LET filename == UrlFilename(request.url)
        video_path == ResolvePath(filename)
        port_text == ClientPortText(request)
        port == IF port_text = None THEN Some(DefaultRtpPort)
                ELSE ParseInt(Val(port_text))
    IN  IF video_path = None
        THEN Outcome(s, generate_response(FILE_NOT_FOUND, s.seq_num), FALSE)
        ELSE IF port = None \/ fault = "source"
        THEN Outcome(s, generate_response(CON_ERR, s.seq_num), FALSE)
        ELSE LET s1 == [s EXCEPT !.video_stream = Some(VideoStream(Val(video_path))),
                                 !.rtp_stream = Some(RTPVideoStream(now)),
                                 !.client_rtp_port = port,
                                 !.server_rtp_port = Some(DefaultRtpPort),
                                 !.session_id = Some(now)]
             IN  IF fault = "socket"
                 THEN Outcome(s1, generate_response(CON_ERR, s1.seq_num), FALSE)
                 ELSE Outcome(
                        [s1 EXCEPT !.rtp_socket = Some("open"), !.state = "READY"],
                        [code |-> OK, cseq |-> s1.seq_num,
                         session |-> Some(s1.session_id),
                         transport |-> Some([client_port |-> Val(port),
                                             server_port |-> DefaultRtpPort])],
                        FALSE)

\* handle_play's state test (line 199).
PlayAllowedAnywhere(s) == TRUE
PlayAllowed(s) == s.state = "READY" \/ s.state = "PLAYING"

\* handle_play's liveness test (line 205): live is the set of this
\* session's threads for which is_alive() holds.
MustSpawnAlways(s, live) == TRUE
MustSpawn(s, live) ==
    s.streaming_thread = None \/ Val(s.streaming_thread) \notin live

\* handle_play; fresh is the thread object it creates when it spawns.
handle_play(s, live, fresh) ==
    IF ~PlayAllowed(s)
    THEN Outcome(s, generate_response(CON_ERR, s.seq_num), FALSE)
    ELSE LET s1 == [s EXCEPT !.state = "PLAYING"]
         IN  IF MustSpawn(s1, live)
             THEN Outcome([s1 EXCEPT !.streaming_thread = Some(fresh)],
                          SessionResponse(s1), TRUE)
             ELSE Outcome(s1, SessionResponse(s1), FALSE)

\* handle_pause
handle_pause_checked(s) ==
    IF s.state = "INIT"
    THEN Outcome(s, generate_response(CON_ERR, s.seq_num), FALSE)
    ELSE Outcome([s EXCEPT !.state = "READY"], SessionResponse(s), FALSE)
handle_pause(s) ==
    Outcome([s EXCEPT !.state = "READY"], SessionResponse(s), FALSE)

\* handle_teardown
handle_teardown(s) ==
    LET s1 == cleanup([s EXCEPT !.state = "INIT"])
    IN  Outcome(s1, SessionResponse(s1), FALSE)

\* parse_rtsp_request's last branch (lines 144-145): a method it does not
\* know.
unknown_method_torn_down(s, cseq) ==
    Outcome(cleanup(s), generate_response(CON_ERR, cseq), FALSE)
unknown_method(s, cseq) ==
    Outcome(s, generate_response(CON_ERR, cseq), FALSE)

\* parse_rtsp_request
parse_rtsp_request(request, s, now, fault, live, fresh) ==
    IF request.tokens < 3
    THEN Outcome(s, generate_response(CON_ERR, s.seq_num), FALSE)
    ELSE LET cseq == IF request.cseq = "absent" THEN Some(0)
                     ELSE ParseInt(request.cseq)
         IN  IF cseq = None THEN Raised(s)
             ELSE LET s1 == [s EXCEPT !.seq_num = Val(cseq)]
                  IN  CASE request.method = "SETUP" ->
                             handle_setup(request, s1, now, fault)
                        [] request.method = "PLAY" ->
                             handle_play(s1, live, fresh)
                        [] request.method = "PAUSE" -> handle_pause(s1)
                        [] request.method = "TEARDOWN" -> handle_teardown(s1)
                        [] OTHER -> unknown_method(s1, Val(cseq))

\* ------------------------------------------------------------ the codec
\* Buffers are sequences of bytes.  A 32-bit field is kept as its two
\* 16-bit halves (2^32 - 1 is beyond TLC's integers); a 16-bit field is a
\* number.
HEADER_SIZE == 12
U32(hi, lo) == [hi |-> hi, lo |-> lo]

\* a | b on non-negative integers.
RECURSIVE BitOr(_, _)
BitOr(a, b) ==
    IF a = 0 THEN b
    ELSE IF b = 0 THEN a
    ELSE (IF a % 2 = 1 \/ b % 2 = 1 THEN 1 ELSE 0) + 2 * BitOr(a \div 2, b \div 2)

\* struct's '!H' and '!I': big-endian, most significant byte first.
Pack16LittleEndian(n) == <<n % 256, n \div 256>>
Pack16(n) == <<n \div 256, n % 256>>
Pack32(v) == Pack16(v.hi) \o Pack16(v.lo)
Unpack16(b) == b[1] * 256 + b[2]
Unpack32(b) == U32(Unpack16(SubSeq(b, 1, 2)), Unpack16(SubSeq(b, 3, 4)))

\* RTPPacket() with every argument at its default.
DefaultPacket ==
    [version |-> 2, padding |-> 0, extension |-> 0, cc |-> 0, marker |-> 0,
     pt |-> 26, seq_num |-> 0, timestamp |-> U32(0, 0), ssrc |-> U32(0, 0),
     payload |-> <<>>]

\* RTPPacket.encode, for fields within their bit widths (struct.pack
\* rejects the others).
encode(p) ==
    LET byte1 == BitOr(BitOr(BitOr(p.version * 64, p.padding * 32),
                             p.extension * 16), p.cc)
        byte2 == BitOr(p.marker * 128, p.pt)
    IN  <<byte1, byte2>> \o Pack16(p.seq_num) \o Pack32(p.timestamp)
          \o Pack32(p.ssrc) \o p.payload

\* The length test of both decoders (lines 70 and 105).
HeaderTooShortOrBare(packet_data) == Len(packet_data) <= HEADER_SIZE
HeaderTooShort(packet_data) == Len(packet_data) < HEADER_SIZE

\* struct.unpack('!BBHII', packet_data[:12])
UnpackHeader(packet_data) ==
    [byte1 |-> packet_data[1], byte2 |-> packet_data[2],
     seq_num |-> Unpack16(SubSeq(packet_data, 3, 4)),
     timestamp |-> Unpack32(SubSeq(packet_data, 5, 8)),
     ssrc |-> Unpack32(SubSeq(packet_data, 9, 12))]

\* RTPPacket.decode on the instance self: the error raised, if any, and the
\* instance afterwards.
decode(self, packet_data) ==
    IF HeaderTooShort(packet_data)
    THEN [error |-> "ValueError", packet |-> self]
    ELSE LET h == UnpackHeader(packet_data)
         IN  [error |-> "none",
              packet |-> [self EXCEPT
                            !.version = (h.byte1 \div 64) % 4,
                            !.padding = (h.byte1 \div 32) % 2,
                            !.extension = (h.byte1 \div 16) % 2,
                            !.cc = h.byte1 % 16,
                            !.marker = (h.byte2 \div 128) % 2,
                            !.pt = h.byte2 % 128,
                            !.seq_num = h.seq_num,
                            !.timestamp = h.timestamp,
                            !.ssrc = h.ssrc,
                            !.payload = SubSeq(packet_data, HEADER_SIZE + 1,
                                               Len(packet_data))]]

\* RTPPacket.decode_packet: the error raised, if any, and the packet
\* returned, if any.
decode_packet(packet_data) ==
    IF HeaderTooShort(packet_data)
    THEN [error |-> "ValueError", packet |-> None]
    ELSE LET h == UnpackHeader(packet_data)
             version == (h.byte1 \div 64) % 4
             padding == (h.byte1 \div 32) % 2
             extension == (h.byte1 \div 16) % 2
             cc == h.byte1 % 16
             marker == (h.byte2 \div 128) % 2
             pt == h.byte2 % 128
             payload == SubSeq(packet_data, HEADER_SIZE + 1, Len(packet_data))
         IN  [error |-> "none",
              packet |-> Some([version |-> version, padding |-> padding,
                               extension |-> extension, cc |-> cc,
                               marker |-> marker, pt |-> pt,
                               seq_num |-> h.seq_num, timestamp |-> h.timestamp,
                               ssrc |-> h.ssrc, payload |-> payload])]

\* The packets handed to the codec: every field at the ends of its range
\* and at values that set bits in more than one of the bytes it spans.
CodecPackets ==
    [version : {0, 2, 3}, padding : {0, 1}, extension : {0, 1}, cc : {0, 15},
     marker : {0, 1}, pt : {26, 127}, seq_num : {258, 65535},
     timestamp : {U32(0, 0), U32(65535, 65535)},
     ssrc : {U32(4660, 22136), U32(32768, 1)},
     payload : {<<>>, <<255, 0, 7>>}]

\* --------------------------------------------------------------- state
VARIABLES
    now,        \* int(time.time())
    running,    \* RTSPServer.running
    clients,    \* keys of RTSPServer.clients
    stop,       \* the main thread in stop(): where it is in its iteration
    hpc,        \* each connection handler's position in handle_client
    sessions,   \* each connection's ClientSession
    req,        \* handle_client's request, once received
    response,   \* handle_client's response, until sent
    pacer,      \* each session's stream_video threads: position and packet
    hist,       \* per session, what the claims need of the past
    codec,      \* a packet on its way through encode and the decoders
    stream      \* a packetizer on its own and the packet it created last

vars == <<now, running, clients, stop, hpc, sessions, req, response, pacer, hist,
          codec, stream>>
\* The server's part of the state.
server == <<now, running, clients, stop, hpc, sessions, req, response, pacer, hist>>

\* A stream_video thread: its position, the packet it is about to send, and
\* whether it left the loop through the send error's break (line 278).
Thread(pc, packet, broke) == [pc |-> pc, packet |-> packet, broke |-> broke]
NewThread == Thread("new", NoPacket, FALSE)
\* paused: a PAUSE was answered 200 and no PLAY has been since;
\* afterPause: datagrams sent since then; setupDone: a SETUP was answered
\* 200 and no TEARDOWN has been since; leftInit: the session's state has
\* been other than INIT; port: the client port in the Transport header of
\* the last SETUP answered 200.
NewHist ==
    [paused |-> FALSE, afterPause |-> 0, setupDone |-> FALSE, leftInit |-> FALSE,
     port |-> None]

\* The codec's bench: the packet handed to encode, the buffer, whether the
\* buffer was cut short on its way, the instance decode filled, the packet
\* decode_packet returned and the error the decoder raised.
Bench(pc, packet) ==
    [pc |-> pc, packet |-> packet, data |-> <<>>, cut |-> FALSE,
     into |-> DefaultPacket, made |-> None, error |-> "none"]
NoCodec == Bench("none", DefaultPacket)
\* A packetizer, how many packets it had created when the run begins and
\* how many it created since, the packet it created last and the sequence
\* number of the packet before that one.
Packetizer(rs, issued) ==
    [rs |-> rs, issued |-> issued, created |-> 0, packet |-> None, prev |-> None]
NoStream == Packetizer(None, 0)
\* A new packetizer, and one that is 36 packets short of its 65536th.
PacketsIssued == {0, 65500}

ServerInit ==
    /\ now \in ClockStarts
    /\ running = TRUE
    /\ clients = {}
    /\ stop = [pc |-> "idle", todo |-> {}, size |-> 0]
    /\ hpc = [c \in AllAddrs |-> "idle"]
    /\ sessions = [c \in AllAddrs |-> NewSession]
    /\ req = [c \in AllAddrs |-> NoRequest]
    /\ response = [c \in AllAddrs |-> NoResponse]
    /\ pacer = [c \in AllAddrs |-> [t \in Tids |-> NewThread]]
    /\ hist = [c \in AllAddrs |-> NewHist]

\* The server at start: no packet is in the codec's hands and no packetizer
\* exists outside the sessions.
Init ==
    /\ ServerInit
    /\ codec = NoCodec
    /\ stream = NoStream

\* Threads of session c for which is_alive() holds.
Live(c) == {t \in Tids : pacer[c][t].pc \notin {"new", "dead"}}
Min(S) == CHOOSE x \in S : \A y \in S : x <= y
\* A Thread object exists while it runs or while session.streaming_thread
\* still refers to it; the places of the others are free for the next one.
FreeTids(c) == {t \in Tids : pacer[c][t].pc \in {"new", "dead"}}

\* ------------------------------------------------------------ the clock
Tick ==
    /\ \E start \in ClockStarts : now >= start /\ now < start + MaxTicks
    /\ now' = now + 1
    /\ UNCHANGED <<running, clients, stop, hpc, sessions, req, response, pacer, hist, codec, stream>>

\* ------------------------------------------------- the connection handler
\* handle_client's position after its step: in "recv" when it goes on
\* (while self.running holds, line 86), "closed" when it leaves the loop.
GoesOn(left) == IF ~left /\ running THEN "recv" ELSE "closed"

\* handle_client's finally (lines 105-109), run as the handler leaves the
\* loop: cleanup, removal from the registry, close.
FinallyAll(c, s, left) ==
    /\ sessions' = [d \in AllAddrs |->
                       IF GoesOn(left) # "closed" THEN (IF d = c THEN s ELSE sessions[d])
                       ELSE cleanup(IF d = c THEN s ELSE sessions[d])]
    /\ clients' = IF GoesOn(left) = "closed" THEN clients \ {c} ELSE clients
Finally(c, s, left) ==
    /\ sessions' = [sessions EXCEPT ![c] =
                       IF GoesOn(left) = "closed" THEN cleanup(s) ELSE s]
    /\ clients' = IF GoesOn(left) = "closed" THEN clients \ {c} ELSE clients

\* start()'s accept loop: a handler thread for a new connection.
Accept(c) ==
    /\ stop.pc = "idle" /\ running
    /\ hpc[c] = "idle"
    /\ hpc' = [hpc EXCEPT ![c] = "start"]
    /\ UNCHANGED <<now, running, clients, stop, sessions, req, response, pacer, hist, codec, stream>>

\* handle_client, lines 82-83: the session is created and registered.
HandlerStart(c) ==
    /\ hpc[c] = "start"
    /\ sessions' = [sessions EXCEPT ![c] = NewSession]
    /\ clients' = clients \cup {c}
    /\ hpc' = [hpc EXCEPT ![c] = "loop"]
    /\ UNCHANGED <<now, running, stop, req, response, pacer, hist, codec, stream>>

\* The first loop test.
HandlerLoop(c) ==
    /\ hpc[c] = "loop"
    /\ hpc' = [hpc EXCEPT ![c] = GoesOn(FALSE)]
    /\ Finally(c, sessions[c], FALSE)
    /\ UNCHANGED <<now, running, stop, req, response, pacer, hist, codec, stream>>

\* What the past records of a handled request.
HistAfter(h, request, out) ==
    LET ok == ~out.raised /\ out.resp.code = OK /\ request.tokens >= 3
        m == request.method
    IN  [h EXCEPT
           !.paused = IF ok /\ m = "PAUSE" THEN TRUE
                      ELSE IF ok /\ m = "PLAY" THEN FALSE ELSE @,
           !.afterPause = IF ok /\ m \in {"PAUSE", "PLAY"} THEN 0 ELSE @,
           !.setupDone = IF ok /\ m = "SETUP" THEN TRUE
                         ELSE IF ok /\ m = "TEARDOWN" THEN FALSE ELSE @,
           !.leftInit = @ \/ out.s.state # "INIT",
           !.port = IF ok /\ m = "SETUP"
                    THEN Some(Val(out.resp.transport).client_port) ELSE @]

\* recv() returns request and parse_rtsp_request handles it (lines 88-96).
\* An exception it raises ends the handler.
Receive(c, request, fault) ==
    /\ hpc[c] = "recv"
    /\   LET free == FreeTids(c)
             fresh == IF free = {} THEN 0 ELSE Min(free)
             out == parse_rtsp_request(request, sessions[c], now, fault,
                                       Live(c), fresh)
         IN  /\ out.spawn => free # {}
             /\ req' = [req EXCEPT ![c] = request]
             /\ response' = [response EXCEPT ![c] = out.resp]
             /\ hpc' = [hpc EXCEPT ![c] = IF out.raised THEN "closed" ELSE "send"]
             /\ sessions' = [sessions EXCEPT ![c] =
                                IF out.raised THEN cleanup(out.s) ELSE out.s]
             /\ clients' = IF out.raised THEN clients \ {c} ELSE clients
             /\ pacer' = IF out.spawn
                         THEN [pacer EXCEPT ![c][fresh] =
                                  Thread("check", NoPacket, FALSE)]
                         ELSE pacer
             /\ hist' = [hist EXCEPT ![c] = HistAfter(@, request, out)]
    /\ UNCHANGED <<now, running, stop, codec, stream>>

\* A client sends any of the requests.
HandlerRequest(c) ==
    \E request \in Requests : \E fault \in Faults(request) :
        Receive(c, request, fault)

\* recv() returns nothing (the peer closed) or raises.
HandlerPeerGone(c) ==
    /\ hpc[c] = "recv"
    /\ hpc' = [hpc EXCEPT ![c] = GoesOn(TRUE)]
    /\ Finally(c, sessions[c], TRUE)
    /\ UNCHANGED <<now, running, stop, req, response, pacer, hist, codec, stream>>

\* client_socket.send(response): written and back to the loop test, or the
\* send raises.
HandlerSend(c) ==
    /\ hpc[c] = "send"
    /\ \E sent \in BOOLEAN :
         /\ hpc' = [hpc EXCEPT ![c] = GoesOn(~sent)]
         /\ Finally(c, sessions[c], ~sent)
    /\ req' = [req EXCEPT ![c] = NoRequest]
    /\ response' = [response EXCEPT ![c] = NoResponse]
    /\ UNCHANGED <<now, running, stop, pacer, hist, codec, stream>>

\* ------------------------------------------------------------- the pacer
\* stream_video's loop test (line 246).
LoopForever(s) == TRUE
LoopCondition(s) == s.state = "PLAYING"

SetPacer(c, t, pc, packet) ==
    pacer' = [pacer EXCEPT ![c][t] = Thread(pc, packet, FALSE)]

\* while session.state == "PLAYING".  A pacer whose packetizer has created
\* MaxPackets packets is not followed into a further iteration.
PacerCheck(c, t) ==
    /\ pacer[c][t].pc = "check"
    /\ (LoopCondition(sessions[c]) /\ sessions[c].rtp_stream # None)
       => Val(sessions[c].rtp_stream).seq_num < MaxPackets
    /\ SetPacer(c, t, IF LoopCondition(sessions[c]) THEN "frame" ELSE "exit", NoPacket)
    /\ UNCHANGED <<now, running, clients, stop, hpc, sessions, req, response, hist, codec, stream>>

\* Lines 248-262: the next frame is fetched; end of stream resets the
\* source, an undersized frame is skipped, any other frame is packetized
\* and encoded.  An exception (no frame source, a timestamp struct.pack
\* rejects) leaves the loop.  A closed frame source either raises or
\* reports end of stream.
PacerFrame(c, t) ==
    /\ pacer[c][t].pc = "frame"
    /\ LET s == sessions[c] IN
       \/ /\ s.video_stream = None
          /\ SetPacer(c, t, "exit", NoPacket)
          /\ UNCHANGED sessions
       \/ /\ s.video_stream # None /\ Val(s.video_stream).closed
          /\ \E raises \in BOOLEAN :
               SetPacer(c, t, IF raises THEN "exit" ELSE "check", NoPacket)
          /\ UNCHANGED sessions
       \/ /\ s.video_stream # None /\ ~Val(s.video_stream).closed
          /\ LET vs == Val(s.video_stream)
                 frame == NextFrame(vs)
             IN  IF frame = None
                 THEN /\ sessions' = [sessions EXCEPT ![c].video_stream =
                                         Some(ResetFrames(vs))]
                      /\ SetPacer(c, t, "check", NoPacket)
                 ELSE IF Val(frame) < MinFrameSize
                 THEN /\ sessions' = [sessions EXCEPT ![c].video_stream =
                                         Some(AdvanceFrame(vs))]
                      /\ SetPacer(c, t, "check", NoPacket)
                 ELSE IF s.rtp_stream = None
                 THEN /\ sessions' = [sessions EXCEPT ![c].video_stream =
                                         Some(AdvanceFrame(vs))]
                      /\ SetPacer(c, t, "exit", NoPacket)
                 ELSE LET made == create_packet(Val(s.rtp_stream), Val(frame),
                                                TRUE, now)
                      IN  /\ sessions' = [sessions EXCEPT
                                            ![c].video_stream = Some(AdvanceFrame(vs)),
                                            ![c].rtp_stream = Some(made.rs)]
                          /\ IF EncodeOk(made.packet)
                             THEN SetPacer(c, t, "send", made.packet)
                             ELSE SetPacer(c, t, "exit", NoPacket)
    /\ UNCHANGED <<now, running, clients, stop, hpc, req, response, hist, codec, stream>>

\* Lines 265-281: sendto on the session's RTP socket to the client's port,
\* then the sleep.  A failed send (no socket, a closed socket, no port, or
\* the transport's own error) leaves the loop.
PacerSendTearsDown(c, t) ==
    /\ pacer[c][t].pc = "send"
    /\ LET s == sessions[c]
           h == hist[c]
       IN  \/ /\ s.rtp_socket = Some("open") /\ s.client_rtp_port # None
              /\ SetPacer(c, t, "check", NoPacket)
              /\ hist' = [hist EXCEPT ![c].afterPause =
                            IF h.paused THEN h.afterPause + 1 ELSE 0]
              /\ UNCHANGED <<sessions, clients>>
           \/ /\ pacer' = [pacer EXCEPT ![c][t] = Thread("exit", NoPacket, TRUE)]
              /\ sessions' = [sessions EXCEPT ![c] = cleanup(s)]
              /\ clients' = clients \ {c}
              /\ UNCHANGED hist
    /\ UNCHANGED <<now, running, stop, hpc, req, response, codec, stream>>
PacerSend(c, t) ==
    /\ pacer[c][t].pc = "send"
    /\ LET s == sessions[c]
           h == hist[c]
       IN  \/ /\ s.rtp_socket = Some("open") /\ s.client_rtp_port # None
              /\ SetPacer(c, t, "check", NoPacket)
              /\ hist' = [hist EXCEPT ![c].afterPause =
                            IF h.paused THEN h.afterPause + 1 ELSE 0]
           \/ /\ pacer' = [pacer EXCEPT ![c][t] = Thread("exit", NoPacket, TRUE)]
              /\ UNCHANGED hist
    /\ UNCHANGED <<now, running, clients, stop, hpc, sessions, req, response, codec, stream>>

\* Line 286: the thread ends.  Its Thread object lives on only as
\* session.streaming_thread.
PacerExit(c, t) ==
    /\ pacer[c][t].pc = "exit"
    /\ pacer' = [pacer EXCEPT ![c][t] =
                    IF sessions[c].streaming_thread = Some(t)
                    THEN [@ EXCEPT !.pc = "dead"]
                    ELSE NewThread]
    /\ UNCHANGED <<now, running, clients, stop, hpc, sessions, req, response, hist, codec, stream>>

\* ---------------------------------------------------------------- stop()
\* Lines 301-306: running is cleared and the iteration over the registry
\* begins.
StopBegin ==
    /\ stop.pc = "idle"
    /\ running' = FALSE
    /\ stop' = [pc |-> "iter", todo |-> clients, size |-> Cardinality(clients)]
    /\ UNCHANGED <<now, clients, hpc, sessions, req, response, pacer, hist, codec, stream>>

\* One step of "for session in self.clients.values()": RuntimeError when
\* the dictionary changed size, else the next session's cleanup, else the
\* end of stop().
StopIter ==
    /\ stop.pc = "iter"
    /\ IF Cardinality(clients) # stop.size \/ stop.todo = {}
       THEN /\ stop' = [stop EXCEPT !.pc = "done", !.todo = {}, !.size = 0]
            /\ UNCHANGED sessions
       ELSE \E c \in stop.todo :
              /\ stop' = [stop EXCEPT !.todo = @ \ {c}]
              /\ sessions' = IF c \in clients
                             THEN [sessions EXCEPT ![c] = cleanup(@)]
                             ELSE sessions
    /\ UNCHANGED <<now, running, clients, hpc, req, response, pacer, hist, codec, stream>>

\* ------------------------------------------------------- specification
ClientNext(c) ==
    \/ Accept(c)
    \/ HandlerStart(c)
    \/ HandlerLoop(c)
    \/ HandlerRequest(c)
    \/ HandlerPeerGone(c)
    \/ HandlerSend(c)

PacerNext(c, t) ==
    \/ PacerCheck(c, t)
    \/ PacerFrame(c, t)
    \/ PacerSend(c, t)
    \/ PacerExit(c, t)

\* The server while start()'s accept loop runs.
Next ==
    \/ Tick
    \/ \E c \in Addrs : ClientNext(c)
    \/ \E c \in Addrs, t \in Tids : PacerNext(c, t)

Spec == Init /\ [][Next]_vars

\* The server with its shutdown.
NextStop ==
    \/ Next
    \/ StopBegin
    \/ StopIter

SpecStop == Init /\ [][NextStop]_vars

\* ------------------------------------------------- the codec on its own
InitCodec ==
    /\ ServerInit /\ now = Min(ClockStarts)
    /\ codec \in {Bench("new", p) : p \in CodecPackets}
    /\ stream = NoStream

\* packet.encode()
CodecEncode ==
    /\ codec.pc = "new"
    /\ codec' = [codec EXCEPT !.pc = "wire", !.data = encode(codec.packet)]
    /\ UNCHANGED <<server, stream>>

\* The receiver gets a buffer of at most HEADER_SIZE bytes: the first bytes
\* of the encoded packet.
CodecTruncate ==
    /\ codec.pc = "wire" /\ ~codec.cut
    /\ \E n \in 0..HEADER_SIZE :
         codec' = [codec EXCEPT !.data = SubSeq(codec.data, 1, n), !.cut = TRUE]
    /\ UNCHANGED <<server, stream>>

\* RTPPacket().decode(data)
CodecDecode ==
    /\ codec.pc = "wire"
    /\ LET r == decode(DefaultPacket, codec.data)
       IN  codec' = [codec EXCEPT !.pc = "decoded", !.into = r.packet,
                                  !.error = r.error]
    /\ UNCHANGED <<server, stream>>

\* RTPPacket.decode_packet(data)
CodecDecodePacket ==
    /\ codec.pc = "wire"
    /\ LET r == decode_packet(codec.data)
       IN  codec' = [codec EXCEPT !.pc = "made", !.made = r.packet,
                                  !.error = r.error]
    /\ UNCHANGED <<server, stream>>

NextCodec ==
    \/ CodecEncode
    \/ CodecTruncate
    \/ CodecDecode
    \/ CodecDecodePacket

SpecCodec == InitCodec /\ [][NextCodec]_vars

\* ------------------------------------------- the packetizer on its own
InitPacketizer ==
    /\ ServerInit
    /\ codec = NoCodec
    /\ \E issued \in PacketsIssued :
         stream = Packetizer(Some([RTPVideoStream(now) EXCEPT
                                     !.seq_num = issued % SeqModulus]), issued)

\* rtp_stream.create_packet(frame, True), time and again.
PacketizerCreate ==
    /\ stream.rs # None /\ stream.created < MaxCreated
    /\ LET made == create_packet(Val(stream.rs), FrameSizes[1], TRUE, now)
       IN  stream' = [stream EXCEPT
                        !.rs = Some(made.rs),
                        !.created = @ + 1,
                        !.packet = Some(made.packet),
                        !.prev = IF stream.packet = None THEN None
                                 ELSE Some(Val(stream.packet).seq_num)]
    /\ UNCHANGED <<server, codec>>

NextPacketizer == PacketizerCreate

SpecPacketizer == InitPacketizer /\ [][NextPacketizer]_vars

\* Two connections at once.  Both clients send well-formed requests for
\* the media directory's clip, and no call of handle_setup raises: the
\* first client sets up, plays and tears down, the second sets up and tears
\* down.
TwoRequests(c) ==
    [tokens : {3},
     method : IF c = 1 THEN {"SETUP", "PLAY", "TEARDOWN"}
              ELSE {"SETUP", "TEARDOWN"},
     url : {Url(File("clip", "mjpeg"))}, cseq : {"7"}, transport : {"6000"}]
HandlerRequestTwo(c) ==
    \E request \in TwoRequests(c) : Receive(c, request, "none")

ClientNextTwo(c) ==
    \/ Accept(c)
    \/ HandlerStart(c)
    \/ HandlerLoop(c)
    \/ HandlerRequestTwo(c)
    \/ HandlerPeerGone(c)
    \/ HandlerSend(c)

NextTwo ==
    \/ Tick
    \/ \E c \in AllAddrs : ClientNextTwo(c)
    \/ \E c \in AllAddrs, t \in Tids : PacerNext(c, t)

SpecTwo == Init /\ [][NextTwo]_vars

\* ------------------------------------------ two connections and stop()
\* The first client sets up and plays, and may send a CSeq that is no
\* number; the second sets up.  stop() runs beside their handlers.
ShutRequests(c) ==
    [tokens : {3},
     method : IF c = 1 THEN {"SETUP", "PLAY"} ELSE {"SETUP"},
     url : {Url(File("clip", "mjpeg"))},
     cseq : IF c = 1 THEN {"7", "x"} ELSE {"7"}, transport : {"6000"}]
HandlerRequestShut(c) ==
    \E request \in ShutRequests(c) : Receive(c, request, "none")

ClientNextShut(c) ==
    \/ Accept(c)
    \/ HandlerStart(c)
    \/ HandlerLoop(c)
    \/ HandlerRequestShut(c)
    \/ HandlerPeerGone(c)
    \/ HandlerSend(c)

NextShut ==
    \/ Tick
    \/ \E c \in AllAddrs : ClientNextShut(c)
    \/ \E c \in AllAddrs, t \in Tids : PacerNext(c, t)
    \/ StopBegin
    \/ StopIter

SpecShut == Init /\ [][NextShut]_vars

\* ------------------------------------------- the pacer under scheduling
\* One client that sets up, plays, pauses and tears down, and stop().
FairRequests ==
    [tokens : {3}, method : {"SETUP", "PLAY", "PAUSE", "TEARDOWN"},
     url : {Url(File("clip", "mjpeg"))}, cseq : {"7"}, transport : {"6000"}]
HandlerRequestFair(c) ==
    \E request \in FairRequests : Receive(c, request, "none")

ClientNextFair(c) ==
    \/ Accept(c)
    \/ HandlerStart(c)
    \/ HandlerLoop(c)
    \/ HandlerRequestFair(c)
    \/ HandlerPeerGone(c)
    \/ HandlerSend(c)

NextFair ==
    \/ Tick
    \/ \E c \in Addrs : ClientNextFair(c)
    \/ \E c \in Addrs, t \in Tids : PacerNext(c, t)
    \/ StopBegin
    \/ StopIter

\* A pacer is a thread of its own (line 211) and every wait in its loop is
\* a sleep (line 281) or a call that returns: a pacer that can take a step
\* takes it.
SpecFair ==
    /\ Init /\ [][NextFair]_vars
    /\ \A c \in Addrs : \A t \in Tids : WF_vars(PacerNext(c, t))

\* --------------------------------------------------------------- claims
\* A step in which handle_client received a request of method m from
\* client c and parse_rtsp_request returned its response.
Handled(c, m) ==
    /\ hpc[c] = "recv" /\ hpc'[c] = "send"
    /\ req'[c].tokens >= 3 /\ req'[c].method = m
\* The state after such a step, the response not yet written.
Answering(c, m) ==
    hpc[c] = "send" /\ req[c].tokens >= 3 /\ req[c].method = m

\* C1: in every reachable state, every session has at most one pacer
\* thread alive.
C1_AtMostOnePacer ==
    \A c \in Addrs : Cardinality(Live(c)) <= 1
\* A PLAY is answered 200 while the earlier pacer has left its loop and
\* has not ended yet.
C1_Witness ==
    \E c \in Addrs :
        /\ Answering(c, "PLAY") /\ response[c].code = OK
        /\ \E t \in Live(c) : pacer[c][t].pc = "exit"

\* The session's last pacer left its loop through the send error's break.
SendBroke(c) ==
    /\ sessions[c].streaming_thread # None
    /\ pacer[c][Val(sessions[c].streaming_thread)].broke

\* C2 (as claimed): while a session is PLAYING and no datagram send has
\* failed, a pacer thread of the session is alive.  Stated for sessions
\* whose SETUP is in effect and for a clock whose timestamps fit 32 bits,
\* where no other defect ends the pacer.
C2_PacerWhilePlaying ==
    \A c \in Addrs :
        ( /\ sessions[c].state = "PLAYING"
          /\ hist[c].setupDone
          /\ 2 * now <= U32MaxSeconds
          /\ ~SendBroke(c) )
        => Live(c) # {}

\* C3 (as claimed): after a PAUSE is answered 200 and until a PLAY is, the
\* session's pacer sends no datagram.
C3_NoDatagramAfterPause ==
    \A c \in Addrs : hist[c].afterPause = 0
\* C3 (amended): after a PAUSE is answered 200 and until a PLAY is, the
\* session's pacer sends at most one datagram, that of the iteration which
\* had passed its state test.
C3_AtMostOneDatagramAfterPause ==
    \A c \in Addrs : hist[c].afterPause <= 1
\* A datagram was sent after the PAUSE and the pacer has since ended.
C3_Witness ==
    \E c \in Addrs :
        /\ hist[c].paused /\ hist[c].afterPause = 1
        /\ Live(c) = {}

\* C4: a PLAY received in state INIT is answered 500, leaves the state
\* INIT and starts no pacer.
C4_PlayInInitRejected ==
    [][\A c \in Addrs :
         (Handled(c, "PLAY") /\ sessions[c].state = "INIT")
         => /\ response'[c].code = CON_ERR
            /\ sessions'[c].state = "INIT"
            /\ pacer'[c] = pacer[c]]_vars
\* A PLAY was answered 500 in INIT after a TEARDOWN closed the resources of
\* an earlier SETUP.
C4_Witness ==
    \E c \in Addrs :
        /\ Answering(c, "PLAY") /\ response[c].code = CON_ERR
        /\ sessions[c].state = "INIT"
        /\ sessions[c].rtp_socket = Some("closed")

\* C5 (as claimed): a PLAY on a session with no SETUP in effect is answered
\* 500 and starts no pacer, whatever was handled before.
C5_PlayWithoutSetupRejected ==
    [][\A c \in Addrs :
         (Handled(c, "PLAY") /\ ~hist[c].setupDone)
         => /\ response'[c].code = CON_ERR
            /\ pacer'[c] = pacer[c]]_vars

\* C6 (as claimed): a PAUSE or TEARDOWN that is the first call on a session
\* in INIT is answered 500 and leaves the session in INIT.
C6_FirstPauseTeardownRejected ==
    [][\A c \in Addrs :
         ( /\ Handled(c, "PAUSE") \/ Handled(c, "TEARDOWN")
           /\ sessions[c] = NewSession )
         => /\ response'[c].code = CON_ERR
            /\ sessions'[c].state = "INIT"]_vars

\* C7: a PAUSE is answered 200 and leaves the session READY, a TEARDOWN is
\* answered 200 and leaves it INIT, in whichever state they are received.
C7_PauseTeardownAnyState ==
    [][\A c \in Addrs :
         /\ Handled(c, "PAUSE")
            => response'[c].code = OK /\ sessions'[c].state = "READY"
         /\ Handled(c, "TEARDOWN")
            => response'[c].code = OK /\ sessions'[c].state = "INIT"]_vars
\* A PAUSE was answered 200 on a session that no SETUP ever touched.
C7_Witness ==
    \E c \in Addrs :
        /\ Answering(c, "PAUSE") /\ response[c].code = OK
        /\ sessions[c].state = "READY"
        /\ sessions[c].video_stream = None

\* C8 (as claimed): a SETUP received while PLAYING is not accepted and
\* changes nothing of the session but the sequence echo.
C8_SetupWhilePlayingRefused ==
    [][\A c \in Addrs :
         (Handled(c, "SETUP") /\ sessions[c].state = "PLAYING")
         => /\ response'[c].code # OK
            /\ sessions'[c] = [sessions[c] EXCEPT !.seq_num = sessions'[c].seq_num]]_vars

\* The target is neither in the media directory nor an .mp4 file of the top
\* level, read off the directories themselves.
Unresolvable(f) ==
    /\ f \notin VideosDir
    /\ ~(f \in RootDir /\ f.ext \in {"mp4", "MP4", "Mp4", "mP4"})

\* C9: a SETUP whose target resolves nowhere is answered 404 and leaves
\* state, token, frame source, packetizer and ports as they were.
C9_SetupNotFound ==
    [][\A c \in Addrs :
         (Handled(c, "SETUP") /\ Unresolvable(UrlFilename(req'[c].url)))
         => /\ response'[c].code = FILE_NOT_FOUND
            /\ sessions'[c].state = sessions[c].state
            /\ sessions'[c].session_id = sessions[c].session_id
            /\ sessions'[c].video_stream = sessions[c].video_stream
            /\ sessions'[c].rtp_stream = sessions[c].rtp_stream
            /\ sessions'[c].client_rtp_port = sessions[c].client_rtp_port
            /\ sessions'[c].server_rtp_port = sessions[c].server_rtp_port]_vars
\* A SETUP for a top-level file that is no .mp4 was answered 404 while the
\* session was PLAYING.
C9_Witness ==
    \E c \in Addrs :
        /\ Answering(c, "SETUP") /\ response[c].code = FILE_NOT_FOUND
        /\ UrlFilename(req[c].url) \in RootDir
        /\ sessions[c].state = "PLAYING"

\* C10 (as claimed): once the session token is assigned, no step changes
\* it.
C10_TokenNeverChanges ==
    [][\A c \in Addrs :
         sessions[c].session_id # None
         => sessions'[c].session_id = sessions[c].session_id]_vars

\* C11 (as claimed): in every reachable state, a session's token is set
\* exactly when the session's state has at some point been other than INIT.
C11_TokenIffLeftInit ==
    \A c \in Addrs :
        (sessions[c].session_id # None) <=> hist[c].leftInit

\* C12 (as claimed): two sessions of two connections, each with a
\* successful SETUP in effect, hold different tokens and different
\* synchronization sources, whenever the two SETUPs were handled.
C12_TokensAndSsrcDistinct ==
    \A c, d \in AllAddrs :
        (c # d /\ hist[c].setupDone /\ hist[d].setupDone)
        => /\ sessions[c].session_id # sessions[d].session_id
           /\ Val(sessions[c].rtp_stream).ssrc # Val(sessions[d].rtp_stream).ssrc

\* C13: a step of one connection's handler or of one of its session's
\* pacer threads leaves every other connection's session as it was.
C13_OtherSessionsUntouched ==
    [][\A c, d \in AllAddrs :
         (c # d /\ (hpc'[c] # hpc[c] \/ pacer'[c] # pacer[c]))
         => sessions'[d] = sessions[d]]_vars
\* The first client's TEARDOWN was answered 200 while its pacer is about to
\* send a datagram, and the second client's session is still READY with
\* its token and its socket open.
C13_Witness ==
    /\ Answering(1, "TEARDOWN") /\ response[1].code = OK
    /\ \E t \in Tids : pacer[1][t].pc = "send"
    /\ sessions[2].state = "READY" /\ sessions[2].session_id # None
    /\ sessions[2].rtp_socket = Some("open")

\* The number a CSeq header carries, read off the header text.
HeaderNumber(text) == IF text = "7" THEN 7 ELSE 0

\* C14: the response to a SETUP, PLAY, PAUSE or TEARDOWN with a well-formed
\* request line carries the CSeq of that request's header, and 0 when the
\* request has no CSeq header, whether it is answered 200, 404 or 500.
C14_CSeqEchoed ==
    [][\A c \in Addrs : \A m \in {"SETUP", "PLAY", "PAUSE", "TEARDOWN"} :
         Handled(c, m)
         => response'[c].cseq = (IF req'[c].cseq = "absent" THEN 0
                                 ELSE HeaderNumber(req'[c].cseq))]_vars
\* A SETUP with CSeq 7 whose target resolves nowhere was answered 404 with
\* CSeq 7 while the session was PLAYING.
C14_Witness ==
    \E c \in Addrs :
        /\ Answering(c, "SETUP") /\ req[c].cseq = "7"
        /\ response[c].code = FILE_NOT_FOUND /\ response[c].cseq = 7
        /\ sessions[c].state = "PLAYING"

\* A step in which handle_client received a request whose first line has
\* fewer than three tokens.
HandledShort(c) ==
    hpc[c] = "recv" /\ hpc'[c] # "recv" /\ req'[c].tokens \in 1..2

\* C15 (as claimed): a request whose first line has fewer than three tokens
\* is answered 500 with CSeq 0, whatever was received before, and leaves
\* the session's state unchanged.
C15_ShortLineCSeqZero ==
    [][\A c \in Addrs :
         HandledShort(c)
         => /\ hpc'[c] = "send"
            /\ response'[c].code = CON_ERR
            /\ response'[c].cseq = 0
            /\ sessions'[c].state = sessions[c].state]_vars

\* C16 (as claimed): once the session's token is assigned, every response
\* on the session carries a Session header with that token.
C16_SessionHeaderOnceAssigned ==
    [][\A c \in Addrs :
         ( /\ hpc[c] = "recv" /\ hpc'[c] = "send"
           /\ sessions[c].session_id # None )
         => response'[c].session = Some(sessions'[c].session_id)]_vars

\* C17 (as claimed): every request received, the erroneous ones included,
\* gets a response written, and the handler stays in its loop; the handler
\* ends only when recv or send fails or the peer closes.
C17_ErrorsAnsweredHandlerGoesOn ==
    [][\A c \in Addrs :
         (hpc[c] = "recv" /\ req'[c] # NoRequest)
         => /\ hpc'[c] = "send"
            /\ response'[c].code \in {OK, FILE_NOT_FOUND, CON_ERR}
            /\ c \in clients']_vars

\* C18: for fields within their bit widths and any payload, decoding what
\* encode produced gives back every field and the payload, by the instance
\* decode and by decode_packet alike.
C18_RoundTrip ==
    /\ (codec.pc = "decoded" /\ ~codec.cut)
       => codec.error = "none" /\ codec.into = codec.packet
    /\ (codec.pc = "made" /\ ~codec.cut)
       => codec.error = "none" /\ codec.made = Some(codec.packet)
\* A packet with every header bit set, a sequence number and 32-bit fields
\* whose bytes differ, and a payload, came back from decode_packet.
C18_Witness ==
    /\ codec.pc = "made" /\ ~codec.cut /\ codec.made # None
    /\ Val(codec.made).version = 3 /\ Val(codec.made).padding = 1
    /\ Val(codec.made).extension = 1 /\ Val(codec.made).cc = 15
    /\ Val(codec.made).marker = 1 /\ Val(codec.made).pt = 127
    /\ Val(codec.made).seq_num = 258
    /\ Val(codec.made).ssrc = U32(4660, 22136)
    /\ Val(codec.made).payload = <<255, 0, 7>>

\* C19: a buffer of 0..11 bytes makes both decoders raise the
\* packet-too-short error, decode_packet returning nothing and decode
\* leaving the instance as it was; a buffer of exactly 12 bytes decodes
\* with an empty payload.
C19_ShortBufferRejected ==
    /\ (codec.pc = "decoded" /\ Len(codec.data) < 12)
       => codec.error = "ValueError" /\ codec.into = DefaultPacket
    /\ (codec.pc = "made" /\ Len(codec.data) < 12)
       => codec.error = "ValueError" /\ codec.made = None
    /\ (codec.pc = "decoded" /\ Len(codec.data) = 12)
       => codec.error = "none" /\ codec.into.payload = <<>>
    /\ (codec.pc = "made" /\ Len(codec.data) = 12)
       => /\ codec.error = "none" /\ codec.made # None
          /\ Val(codec.made).payload = <<>>
\* The instance decode raised on the first 11 bytes of a packet whose
\* fields all differ from the instance's.
C19_Witness ==
    /\ codec.pc = "decoded" /\ Len(codec.data) = 11
    /\ codec.error = "ValueError"
    /\ codec.packet.version = 3 /\ codec.packet.pt = 127
    /\ codec.packet.payload # <<>>

\* C20: the packets one packetizer creates are numbered from 0, each one
\* more than the one before, and 0 again after 65535.
C20_SequenceNumbers ==
    stream.packet # None
    => Val(stream.packet).seq_num =
          (IF stream.prev = None THEN stream.issued
           ELSE IF stream.prev = Some(65535) THEN 0
           ELSE Val(stream.prev) + 1)
\* The packet after the one numbered 65535 was created, and packets after
\* that one.
C20_Witness ==
    /\ stream.issued = 65500 /\ stream.packet # None
    /\ stream.prev = Some(1) /\ Val(stream.packet).seq_num = 2

\* C21 (as claimed): every packet a packetizer creates has a timestamp
\* that fits 32 bits, so that encode accepts it.
C21_TimestampFits ==
    stream.packet # None
    => /\ Val(stream.packet).timestamp >= 0
       /\ Val(stream.packet).timestamp <= U32MaxSeconds

\* C22 (as claimed): a SETUP for an existing resource with a malformed
\* client_port is answered 200, leaves the session READY and takes port
\* 25000; one without Transport header does so too whenever it is answered
\* 200 (it is not when the frame source or the socket cannot be opened).
C22_DefaultPortSubstituted ==
    [][\A c \in Addrs :
         ( /\ Handled(c, "SETUP")
           /\ ~Unresolvable(UrlFilename(req'[c].url))
           /\ \/ req'[c].transport = "abc"
              \/ req'[c].transport = "absent" /\ response'[c].code = OK )
         => /\ response'[c].code = OK
            /\ sessions'[c].state = "READY"
            /\ sessions'[c].client_rtp_port = Some(25000)]_vars

\* C23 (as claimed): once a TEARDOWN is answered 200, the session's RTP
\* socket and frame source are released and the registry holds no entry
\* for the connection.
C23_TeardownDestroysSession ==
    \A c \in Addrs :
        (Answering(c, "TEARDOWN") /\ response[c].code = OK)
        => /\ sessions[c].rtp_socket # Some("open")
           /\ sessions[c].video_stream # None => Val(sessions[c].video_stream).closed
           /\ c \notin clients

\* C26 (as claimed): a request that was received is always the one whose
\* response the handler is about to write; the handler neither reads on nor
\* ends with a request unanswered.
C26_EachRequestAnswered ==
    \A c \in Addrs : req[c] # NoRequest => hpc[c] = "send"

\* C27: a request with a method the server does not know is answered 500
\* with the request's CSeq and changes nothing of the session but the
\* sequence echo, in every state.
C27_UnknownMethod ==
    [][\A c \in Addrs :
         Handled(c, "OPTIONS")
         => /\ response'[c].code = CON_ERR
            /\ response'[c].cseq = (IF req'[c].cseq = "absent" THEN 0
                                    ELSE HeaderNumber(req'[c].cseq))
            /\ sessions'[c] = [sessions[c] EXCEPT !.seq_num = response'[c].cseq]]_vars
\* An unknown method with CSeq 7 was answered 500 while the session was
\* PLAYING with its pacer about to send.
C27_Witness ==
    \E c \in Addrs :
        /\ Answering(c, "OPTIONS") /\ response[c].code = CON_ERR
        /\ response[c].cseq = 7
        /\ sessions[c].state = "PLAYING"
        /\ \E t \in Tids : pacer[c][t].pc = "send"

\* C29: a failed datagram send ends the pacer's loop and changes neither
\* the session (its state stays PLAYING, its socket and frame source stay
\* open) nor the registry.
C29_SendFailureEndsPacerOnly ==
    [][\A c \in Addrs : \A t \in Tids :
         (pacer[c][t].pc = "send" /\ pacer'[c][t].broke)
         => /\ pacer'[c][t].pc = "exit"
            /\ sessions'[c] = sessions[c]
            /\ clients' = clients]_vars
\* The pacer ended after a failed send; the session is PLAYING and
\* registered, its socket and frame source open, and its handler waits for
\* the next request.
C29_Witness ==
    \E c \in Addrs :
        /\ SendBroke(c) /\ Live(c) = {}
        /\ sessions[c].state = "PLAYING" /\ c \in clients
        /\ sessions[c].rtp_socket = Some("open")
        /\ ~Val(sessions[c].video_stream).closed
        /\ hpc[c] = "recv"

\* C30 (as claimed): every datagram the pacer sends carries a frame of at
\* least 100 bytes with the marker bit set and goes to the client port of
\* the last SETUP answered 200; a shorter frame is skipped and the pacer
\* goes on.
C30_DatagramContentAndAddress ==
    [][\A c \in Addrs : \A t \in Tids :
         /\ (pacer[c][t].pc = "send" /\ pacer'[c][t].pc = "check")
            => /\ pacer[c][t].packet.payload >= 100
               /\ pacer[c][t].packet.marker = 1
               /\ sessions[c].client_rtp_port = hist[c].port
         /\ ( /\ pacer[c][t].pc = "frame" /\ pacer'[c][t].pc # "frame"
              /\ sessions[c].video_stream # None
              /\ ~Val(sessions[c].video_stream).closed
              /\ NextFrame(Val(sessions[c].video_stream)) # None
              /\ Val(NextFrame(Val(sessions[c].video_stream))) < 100 )
            => pacer'[c][t].pc = "check"]_vars

\* Session c holds no open RTP socket and no open frame source.
Released(c) ==
    /\ sessions[c].rtp_socket # Some("open")
    /\ sessions[c].video_stream # None => Val(sessions[c].video_stream).closed

\* C24: once a connection's handler has left its loop, the session's
\* socket and frame source are released, its state is INIT and the
\* registry holds no entry for the connection.
C24_HandlerExitReleases ==
    \A c \in AllAddrs :
        hpc[c] = "closed"
        => Released(c) /\ sessions[c].state = "INIT" /\ c \notin clients
\* Both handlers have ended, each of a session that had been set up: the
\* first on a CSeq that is no number, the second after stop() had cleared
\* running or its peer had closed.
C24_Witness ==
    /\ hpc[1] = "closed" /\ hpc[2] = "closed"
    /\ sessions[1].rtp_socket = Some("closed")
    /\ sessions[2].rtp_socket = Some("closed")
    /\ req[1].cseq = "x"
    /\ ~running

\* C25 (as claimed): when stop() ends, no session that was registered when
\* it began is left with an open socket or frame source, and the registry
\* is empty.  stop.todo holds the sessions registered at its beginning that
\* its loop has not reached.
C25_StopReleasesThenClears ==
    [][(stop.pc = "iter" /\ stop'.pc = "done")
       => /\ \A c \in stop.todo : Released(c)
          /\ clients' = {}]_vars

\* C28: whenever a session is not PLAYING, later it is PLAYING again or
\* none of its pacer threads is alive.
C28_PacerTerminates ==
    \A c \in Addrs :
        (sessions[c].state # "PLAYING")
        ~> (sessions[c].state = "PLAYING" \/ Live(c) = {})
\* After a PAUSE, a pacer has left its loop at the test that followed the
\* iteration in which it skipped the undersized frame.
C28_Witness ==
    \E c \in Addrs : \E t \in Tids :
        /\ sessions[c].state = "READY" /\ hist[c].paused
        /\ pacer[c][t].pc = "exit" /\ ~pacer[c][t].broke
        /\ sessions[c].video_stream # None
        /\ Val(sessions[c].video_stream).pos = 2

\* C31 (as claimed): while a pacer of a session is past its loop test and
\* about to packetize or send, a step that is not a pacer's leaves the session's packetizer and RTP socket as
\* they are, and at most one pacer of the session is alive.
C31_PacerOwnsPacketizerAndSocket ==
    [][\A c \in Addrs :
         /\ ( /\ \E t \in Tids : pacer[c][t].pc \in {"frame", "send"}
              /\ pacer'[c] = pacer[c] )
            => /\ sessions'[c].rtp_stream = sessions[c].rtp_stream
               /\ sessions'[c].rtp_socket = sessions[c].rtp_socket
         /\ Cardinality(Live(c)) <= 1]_vars

\* C32 (as claimed): while stop() traverses the registry and has sessions
\* yet to visit, no handler inserts into it or removes from it.
C32_RegistryAccessExclusive ==
    [][(stop.pc = "iter" /\ stop.todo # {}) => clients' = clients]_vars

\* C33 (as claimed): a session that is READY or PLAYING has a token, a
\* frame source that is not closed, a packetizer and an open RTP socket.
C33_ReadyOrPlayingHoldsResources ==
    \A c \in Addrs :
        sessions[c].state \in {"READY", "PLAYING"}
        => /\ sessions[c].session_id # None
           /\ sessions[c].video_stream # None
           /\ ~Val(sessions[c].video_stream).closed
           /\ sessions[c].rtp_stream # None
           /\ sessions[c].rtp_socket = Some("open")

\* C34 (as claimed): every socket and frame source a successful SETUP
\* opened is closed when the handler ends.  cleanup closes the socket and
\* the frame source the session holds at that time and no others, so this
\* is: no successful SETUP replaces a socket or a frame source that is
\* still open.
C34_NoOpenResourceReplaced ==
    [][\A c \in Addrs :
         (Handled(c, "SETUP") /\ response'[c].code = OK)
         => /\ sessions[c].rtp_socket # Some("open")
            /\ sessions[c].video_stream # None
               => Val(sessions[c].video_stream).closed]_vars

\* C35 (as claimed): a SETUP answered 500 leaves the session's state,
\* token, frame source, packetizer and ports as they were.
C35_FailedSetupChangesNothing ==
    [][\A c \in Addrs :
         (Handled(c, "SETUP") /\ response'[c].code = CON_ERR)
         => /\ sessions'[c].state = sessions[c].state
            /\ sessions'[c].session_id = sessions[c].session_id
            /\ sessions'[c].video_stream = sessions[c].video_stream
            /\ sessions'[c].rtp_stream = sessions[c].rtp_stream
            /\ sessions'[c].client_rtp_port = sessions[c].client_rtp_port
            /\ sessions'[c].server_rtp_port = sessions[c].server_rtp_port]_vars

\* C36 (as claimed): PLAY and PAUSE leave token, ports, frame source and
\* packetizer as they are, and a packetizer that has issued packets is
\* replaced by one at sequence number 0 only in a SETUP answered 200.
C36_NumberingContinues ==
    [][\A c \in Addrs :
         /\ (Handled(c, "PLAY") \/ Handled(c, "PAUSE"))
            => /\ sessions'[c].session_id = sessions[c].session_id
               /\ sessions'[c].client_rtp_port = sessions[c].client_rtp_port
               /\ sessions'[c].server_rtp_port = sessions[c].server_rtp_port
               /\ sessions'[c].video_stream = sessions[c].video_stream
               /\ sessions'[c].rtp_stream = sessions[c].rtp_stream
         /\ ( /\ sessions[c].rtp_stream # None /\ sessions'[c].rtp_stream # None
              /\ Val(sessions[c].rtp_stream).seq_num > 0
              /\ Val(sessions'[c].rtp_stream).seq_num = 0 )
            => Handled(c, "SETUP") /\ response'[c].code = OK]_vars

\* C37 (as claimed): a response being written carries a Session header
\* only if the session has a token.
C37_SessionHeaderNeedsToken ==
    \A c \in Addrs :
        (hpc[c] = "send" /\ response[c].session # NoHeader)
        => sessions[c].session_id # None

====
